---------------------------- MODULE Spec2Model ----------------------------
(***************************************************************************)
(* A model of the guide-counting repository:                               *)
(*                                                                         *)
(*   - src/SeqIO_exploration.py : FastqGeneralIterator, the FASTQ record   *)
(*     reader, as a generator whose steps are the iterations of its loops; *)
(*   - src/main.py : the script that extracts every read of a FASTQ file,  *)
(*     splits the reads into chunk files, counts every guide in every     *)
(*     chunk and sums the partial tables into the final table.             *)
(*                                                                         *)
(* A character is a one-character string, a line is a sequence of          *)
(* characters that keeps its terminator "\n" (as the lines Python reads    *)
(* from a handle do), a stream or a file is a sequence of lines.           *)
(***************************************************************************)
EXTENDS Integers, Sequences, FiniteSets, TLC

VARIABLES
    \* ---- FastqGeneralIterator (src/SeqIO_exploration.py) ----
    stream,          \* the lines the handle delivers, in order
    pos,             \* how many of them the handle has delivered
    pc,              \* where the generator stands
    line,            \* the local variable `line`
    title_line,      \* the local variable `title_line`
    seq_string,      \* the local variable `seq_string`
    seq_len,         \* the local variable `seq_len`
    quality_string,  \* the local variable `quality_string`
    records,         \* the tuples yielded so far, in order
    error,           \* the message of the ValueError raised, "" if none
    \* ---- the script of src/main.py ----
    fastq,           \* the lines of the FASTQ file (args.fastq)
    guides_data,     \* the rows of the guide table (args.tsv), in order
    number_of_files, \* the local variable `number_of_files`
    mpc,             \* where the script stands
    sequences,       \* the local variable `sequences`
    sequences_split, \* the local variable `sequences_split`
    fa,              \* fa[i + 1]: the content of nucleotides_i.fa
    guides_dict,     \* the local variable `guides_dict`, in insertion order
    globbed,         \* the .fa files glob has delivered, in its order
    out,             \* out[i + 1]: the data rows of df_i.out
    tasks,           \* the calls handed to the pool: argument and state
    output           \* the rows of the final table, NoTable if not written

readerVars == << stream, pos, pc, line, title_line, seq_string, seq_len,
                 quality_string, records, error >>

mainVars == << fastq, guides_data, number_of_files, mpc, sequences,
               sequences_split, fa, guides_dict, globbed, out, tasks, output >>

vars == << readerVars, mainVars >>

(***************************************************************************)
(* Strings                                                                 *)
(***************************************************************************)

\* The value None of the variable `line`.  A line read from a handle is
\* never empty (it holds at least its terminator), so <<>> is free.
None == << >>

\* The characters str.rstrip() strips that the model's alphabets can hold.
Whitespace == { " ", "\t", "\n", "\r", "\f" }

\* A strip that strips nothing.
RStripNothing(s) == s

\* str.rstrip(): the string without its trailing whitespace.
RECURSIVE RStrip(_)
RStrip(s) ==
    IF s = << >> THEN << >>
    ELSE IF s[Len(s)] \in Whitespace THEN RStrip(SubSeq(s, 1, Len(s) - 1))
    ELSE s

\* `c in s` for a one-character c.
Contains(s, c) == \E i \in 1..Len(s) : s[i] = c


(***************************************************************************)
(* Input streams                                                           *)
(***************************************************************************)

\* The longest stream of the general specification, in lines.
MaxLines == 5

\* The longest stream of the marker-and-letter specification, in lines.
MaxPlainLines == 8

\* The longest stream of the specification with fairness, in lines.
MaxFairLines == 4

\* A line: its body and its terminator.
Terminated(body) == body \o << "\n" >>

\* Line bodies that meet every branch of the reader: blank, title with and
\* without text, separator with and without a repeated title, data, data
\* with trailing, leading (space, tab) and leading (form feed) whitespace.
RichBodies ==
    { << >>, << "@" >>, << "@", "A" >>, << "+" >>, << "+", "A" >>,
      << "A" >>, << "A", " " >>, << " ", "A" >>, << "\t", "A" >>,
      << "\f", "A" >> }

\* Line bodies made of the two markers and one letter only.
PlainBodies == { << "@", "A" >>, << "+" >>, << "+", "A" >>, << "A" >> }

\* Every stream of at most n lines whose bodies are in `bodies`.
Streams(bodies, n) ==
    UNION { [1..k -> { Terminated(b) : b \in bodies }] : k \in 0..n }

\* The example file of the docstring (src/SeqIO_exploration.py, 24-41).
TrickyFastq ==
    << <<"@", "0", "7", "1", "1", "1", "3", "_", "E", "A", "S", "5", "6", "_", "0", "0", "5", "3", ":", "1", ":", "1", ":", "9", "9", "8", ":", "2", "3", "6", "\n">>,
       <<"T", "T", "T", "C", "T", "T", "G", "C", "C", "C", "C", "C", "A", "T", "A", "G", "A", "C", "T", "G", "A", "G", "A", "C", "C", "T", "T", "C", "C", "C", "T", "A", "A", "A", "T", "A", "\n">>,
       <<"+", "0", "7", "1", "1", "1", "3", "_", "E", "A", "S", "5", "6", "_", "0", "0", "5", "3", ":", "1", ":", "1", ":", "9", "9", "8", ":", "2", "3", "6", "\n">>,
       <<"I", "I", "I", "I", "I", "I", "I", "I", "I", "I", "I", "I", "I", "I", "I", "I", "I", "I", "I", "I", "I", "I", "I", "I", "I", "I", "I", "I", "I", "C", "I", "I", "+", "I", "I", "I", "\n">>,
       <<"@", "0", "7", "1", "1", "1", "3", "_", "E", "A", "S", "5", "6", "_", "0", "0", "5", "3", ":", "1", ":", "1", ":", "1", "8", "2", ":", "7", "1", "2", "\n">>,
       <<"A", "C", "C", "C", "A", "G", "C", "T", "A", "A", "T", "T", "T", "T", "T", "G", "T", "A", "T", "T", "T", "T", "T", "G", "T", "T", "A", "G", "A", "G", "A", "C", "A", "G", "T", "G", "\n">>,
       <<"+", "\n">>,
       <<"@", "I", "I", "I", "I", "I", "I", "I", "I", "I", "I", "I", "I", "I", "I", "I", "C", "D", "I", "I", "I", "I", "I", "<", "%", "<", "6", "&", "-", "*", ")", ".", "(", "*", "%", "+", "\n">>,
       <<"@", "0", "7", "1", "1", "1", "3", "_", "E", "A", "S", "5", "6", "_", "0", "0", "5", "3", ":", "1", ":", "1", ":", "1", "5", "3", ":", "1", "0", "\n">>,
       <<"T", "G", "T", "T", "C", "T", "G", "A", "A", "G", "G", "A", "A", "G", "G", "T", "G", "T", "G", "C", "G", "T", "G", "C", "G", "T", "G", "T", "G", "T", "G", "T", "G", "T", "G", "T", "\n">>,
       <<"+", "\n">>,
       <<"I", "I", "I", "I", "I", "I", "I", "I", "I", "I", "I", "I", "C", "I", "I", "G", "I", "I", "I", "I", "I", ">", "I", "A", "I", "I", "I", "E", "6", "5", "I", "=", "I", "I", ":", "6", "\n">>,
       <<"@", "0", "7", "1", "1", "1", "3", "_", "E", "A", "S", "5", "6", "_", "0", "0", "5", "3", ":", "1", ":", "3", ":", "9", "9", "0", ":", "5", "0", "1", "\n">>,
       <<"T", "G", "G", "G", "A", "G", "G", "T", "T", "T", "T", "A", "T", "G", "T", "G", "G", "A", "\n">>,
       <<"A", "A", "G", "C", "A", "G", "C", "A", "A", "T", "G", "T", "A", "C", "A", "A", "G", "A", "\n">>,
       <<"+", "\n">>,
       <<"I", "I", "I", "I", "I", "I", "I", ".", "I", "I", "I", "I", "I", "I", "1", "@", "4", "4", "\n">>,
       <<"@", "-", "7", ".", "%", "<", "&", "+", "/", "$", "/", "%", "4", "(", "+", "+", "(", "%", "\n">> >>

TrickyRecords ==
    << << <<"0", "7", "1", "1", "1", "3", "_", "E", "A", "S", "5", "6", "_", "0", "0", "5", "3", ":", "1", ":", "1", ":", "9", "9", "8", ":", "2", "3", "6">>,
          <<"T", "T", "T", "C", "T", "T", "G", "C", "C", "C", "C", "C", "A", "T", "A", "G", "A", "C", "T", "G", "A", "G", "A", "C", "C", "T", "T", "C", "C", "C", "T", "A", "A", "A", "T", "A">>,
          <<"I", "I", "I", "I", "I", "I", "I", "I", "I", "I", "I", "I", "I", "I", "I", "I", "I", "I", "I", "I", "I", "I", "I", "I", "I", "I", "I", "I", "I", "C", "I", "I", "+", "I", "I", "I">> >>,
       << <<"0", "7", "1", "1", "1", "3", "_", "E", "A", "S", "5", "6", "_", "0", "0", "5", "3", ":", "1", ":", "1", ":", "1", "8", "2", ":", "7", "1", "2">>,
          <<"A", "C", "C", "C", "A", "G", "C", "T", "A", "A", "T", "T", "T", "T", "T", "G", "T", "A", "T", "T", "T", "T", "T", "G", "T", "T", "A", "G", "A", "G", "A", "C", "A", "G", "T", "G">>,
          <<"@", "I", "I", "I", "I", "I", "I", "I", "I", "I", "I", "I", "I", "I", "I", "I", "C", "D", "I", "I", "I", "I", "I", "<", "%", "<", "6", "&", "-", "*", ")", ".", "(", "*", "%", "+">> >>,
       << <<"0", "7", "1", "1", "1", "3", "_", "E", "A", "S", "5", "6", "_", "0", "0", "5", "3", ":", "1", ":", "1", ":", "1", "5", "3", ":", "1", "0">>,
          <<"T", "G", "T", "T", "C", "T", "G", "A", "A", "G", "G", "A", "A", "G", "G", "T", "G", "T", "G", "C", "G", "T", "G", "C", "G", "T", "G", "T", "G", "T", "G", "T", "G", "T", "G", "T">>,
          <<"I", "I", "I", "I", "I", "I", "I", "I", "I", "I", "I", "I", "C", "I", "I", "G", "I", "I", "I", "I", "I", ">", "I", "A", "I", "I", "I", "E", "6", "5", "I", "=", "I", "I", ":", "6">> >>,
       << <<"0", "7", "1", "1", "1", "3", "_", "E", "A", "S", "5", "6", "_", "0", "0", "5", "3", ":", "1", ":", "3", ":", "9", "9", "0", ":", "5", "0", "1">>,
          <<"T", "G", "G", "G", "A", "G", "G", "T", "T", "T", "T", "A", "T", "G", "T", "G", "G", "A", "A", "A", "G", "C", "A", "G", "C", "A", "A", "T", "G", "T", "A", "C", "A", "A", "G", "A">>,
          <<"I", "I", "I", "I", "I", "I", "I", ".", "I", "I", "I", "I", "I", "I", "1", "@", "4", "4", "@", "-", "7", ".", "%", "<", "&", "+", "/", "$", "/", "%", "4", "(", "+", "+", "(", "%">> >> >>

\* The example file and every run of consecutive lines of it.
TrickyStreams ==
    { SubSeq(TrickyFastq, i, j) :
        i \in 1..(Len(TrickyFastq) + 1), j \in 0..Len(TrickyFastq) }

(***************************************************************************)
(* FastqGeneralIterator                                                    *)
(***************************************************************************)

\* The generator before its first step, on the stream s.
ReaderInit(s) ==
    /\ stream = s
    /\ pos = 0
    /\ pc = "start"
    /\ line = None
    /\ title_line = << >>
    /\ seq_string = << >>
    /\ seq_len = 0
    /\ quality_string = << >>
    /\ records = << >>
    /\ error = ""

\* The generator when the model runs the script of main.py instead.
ReaderIdle ==
    /\ stream = << >>
    /\ pos = 0
    /\ pc = "idle"
    /\ line = None
    /\ title_line = << >>
    /\ seq_string = << >>
    /\ seq_len = 0
    /\ quality_string = << >>
    /\ records = << >>
    /\ error = ""

\* `raise ValueError(msg)`: the generator ends with the error.
Raise(msg) ==
    /\ pc' = "error"
    /\ error' = msg

\* The handle has a next line.
HasNext == pos < Len(stream)

\* A reader that takes every "@" line of the quality block for a title.
IsNewRecordNaive(l, q, n) == l[1] = "@"

\* A reader that asks for more quality than sequence before it ends a record.
IsNewRecordStrict(l, q, n) ==
    /\ l[1] = "@"
    /\ Len(q) > n

\* Lines 126-134: an "@" line in the quality block starts the next record
\* when the quality read so far, q, is at least as long as the sequence.
IsNewRecord(l, q, n) ==
    /\ l[1] = "@"
    /\ Len(q) >= n

\* Lines 117: the sequence holds a space or a tab.
HasSpaceOrTab(s) == Contains(s, " ") \/ Contains(s, "\t")

\* Lines 87-91: the first line, or the end of an empty stream.
Start ==
    /\ UNCHANGED mainVars
    /\ pc = "start"
    /\ IF HasNext
       THEN /\ line' = stream[pos + 1]
            /\ pos' = pos + 1
            /\ pc' = "title"
       ELSE /\ pc' = "done"
            /\ UNCHANGED << line, pos >>
    /\ UNCHANGED << stream, title_line, seq_string, seq_len, quality_string,
                    records, error >>

\* A head of the outer loop that takes whatever line it holds for a title.
TitleLineUnchecked ==
    /\ UNCHANGED mainVars
    /\ pc = "title"
    /\ title_line' = RStrip(Tail(line))
    /\ seq_string' = << >>
    /\ pc' = "seq"
    /\ UNCHANGED << stream, pos, line, seq_len, quality_string, records,
                    error >>

\* Lines 93-99: the head of the outer loop, on the line held in `line`.
TitleLine ==
    /\ UNCHANGED mainVars
    /\ pc = "title"
    /\ IF line[1] # "@"
       THEN /\ Raise("Records in Fastq files should start with '@' character")
            /\ UNCHANGED << title_line, seq_string >>
       ELSE /\ title_line' = RStrip(Tail(line))
            /\ seq_string' = << >>
            /\ pc' = "seq"
            /\ UNCHANGED error
    /\ UNCHANGED << stream, pos, line, seq_len, quality_string, records >>

\* Lines 102-110: one pass of the sequence loop, or its else branch.
SeqLine ==
    /\ UNCHANGED mainVars
    /\ pc = "seq"
    /\ IF HasNext
       THEN /\ line' = stream[pos + 1]
            /\ pos' = pos + 1
            /\ IF line'[1] = "+"
               THEN /\ pc' = "sep"
                    /\ UNCHANGED seq_string
               ELSE /\ seq_string' = seq_string \o RStrip(line')
                    /\ UNCHANGED pc
            /\ UNCHANGED error
       ELSE /\ IF seq_string # << >>
               THEN Raise("End of file without quality information.")
               ELSE Raise("Unexpected end of file")
            /\ UNCHANGED << line, pos, seq_string >>
    /\ UNCHANGED << stream, title_line, seq_len, quality_string, records >>

\* Lines 112-124: the "+" line, the checks on the sequence, and the reset
\* of `line` and `quality_string` before the quality loop.
Separator ==
    /\ UNCHANGED mainVars
    /\ pc = "sep"
    /\ LET second_title == RStrip(Tail(line))
       IN  IF second_title # << >> /\ second_title # title_line
           THEN /\ Raise("Sequence and quality captions differ.")
                /\ UNCHANGED << line, seq_len, quality_string >>
           ELSE IF HasSpaceOrTab(seq_string)
           THEN /\ Raise("Whitespace is not allowed in the sequence.")
                /\ UNCHANGED << line, seq_len, quality_string >>
           ELSE /\ seq_len' = Len(seq_string)
                /\ line' = None
                /\ quality_string' = << >>
                /\ pc' = "qual"
                /\ UNCHANGED error
    /\ UNCHANGED << stream, pos, title_line, seq_string, records >>

\* A quality loop that ends on an "@" line without taking it from the
\* handle.
QualLinePeeks ==
    /\ UNCHANGED mainVars
    /\ pc = "qual"
    /\ IF HasNext
       THEN /\ line' = stream[pos + 1]
            /\ IF IsNewRecord(line', quality_string, seq_len)
               THEN /\ pc' = "check"
                    /\ UNCHANGED << pos, quality_string >>
               ELSE /\ quality_string' = quality_string \o RStrip(line')
                    /\ pos' = pos + 1
                    /\ UNCHANGED pc
            /\ UNCHANGED error
       ELSE /\ IF line = None
               THEN /\ Raise("Unexpected end of file")
                    /\ UNCHANGED line
               ELSE /\ line' = None
                    /\ pc' = "check"
                    /\ UNCHANGED error
            /\ UNCHANGED << pos, quality_string >>
    /\ UNCHANGED << stream, title_line, seq_string, seq_len, records >>

\* A quality loop whose else branch raises whenever the quality is short.
QualLineShortAtEnd ==
    /\ UNCHANGED mainVars
    /\ pc = "qual"
    /\ IF HasNext
       THEN /\ line' = stream[pos + 1]
            /\ pos' = pos + 1
            /\ IF IsNewRecord(line', quality_string, seq_len)
               THEN /\ pc' = "check"
                    /\ UNCHANGED quality_string
               ELSE /\ quality_string' = quality_string \o RStrip(line')
                    /\ UNCHANGED pc
            /\ UNCHANGED error
       ELSE /\ IF line = None \/ Len(quality_string) < seq_len
               THEN /\ Raise("Unexpected end of file")
                    /\ UNCHANGED line
               ELSE /\ line' = None
                    /\ pc' = "check"
                    /\ UNCHANGED error
            /\ UNCHANGED << pos, quality_string >>
    /\ UNCHANGED << stream, title_line, seq_string, seq_len, records >>

\* Lines 125-140: one pass of the quality loop, or its else branch.
QualLine ==
    /\ UNCHANGED mainVars
    /\ pc = "qual"
    /\ IF HasNext
       THEN /\ line' = stream[pos + 1]
            /\ pos' = pos + 1
            /\ IF IsNewRecord(line', quality_string, seq_len)
               THEN /\ pc' = "check"
                    /\ UNCHANGED quality_string
               ELSE /\ quality_string' = quality_string \o RStrip(line')
                    /\ UNCHANGED pc
            /\ UNCHANGED error
       ELSE /\ IF line = None
               THEN /\ Raise("Unexpected end of file")
                    /\ UNCHANGED line
               ELSE /\ line' = None
                    /\ pc' = "check"
                    /\ UNCHANGED error
            /\ UNCHANGED << pos, quality_string >>
    /\ UNCHANGED << stream, title_line, seq_string, seq_len, records >>

\* Lines 142-149: the length check and the yield.
CheckAndYield ==
    /\ UNCHANGED mainVars
    /\ pc = "check"
    /\ IF seq_len # Len(quality_string)
       THEN /\ Raise("Lengths of sequence and quality values differs")
            /\ UNCHANGED records
       ELSE /\ records' = Append(records,
                                 << title_line, seq_string, quality_string >>)
            /\ pc' = "yielded"
            /\ UNCHANGED error
    /\ UNCHANGED << stream, pos, line, title_line, seq_string, seq_len,
                    quality_string >>

\* A generator that, resumed after a yield, reads the next title line
\* from the handle.
ResumeReadsNext ==
    /\ UNCHANGED mainVars
    /\ pc = "yielded"
    /\ IF line # None /\ HasNext
       THEN /\ line' = stream[pos + 1]
            /\ pos' = pos + 1
            /\ pc' = "title"
       ELSE /\ pc' = "done"
            /\ UNCHANGED << line, pos >>
    /\ UNCHANGED << stream, title_line, seq_string, seq_len, quality_string,
                    records, error >>

\* Lines 151-152: the generator resumed after a yield.
Resume ==
    /\ UNCHANGED mainVars
    /\ pc = "yielded"
    /\ pc' = IF line = None THEN "done" ELSE "title"
    /\ UNCHANGED << stream, pos, line, title_line, seq_string, seq_len,
                    quality_string, records, error >>

ReaderNext ==
    \/ Start
    \/ TitleLine
    \/ SeqLine
    \/ Separator
    \/ QualLine
    \/ CheckAndYield
    \/ Resume

(***************************************************************************)
(* The script of main.py: inputs                                           *)
(***************************************************************************)

\* The most reads a generated FASTQ file holds.
MaxReads == 4

\* Line 92: number_of_files = 4.  The script is also run with every
\* smaller number of chunk files, from 1 on.
NumberOfFiles == 4

\* The nucleotides of a generated read.
ReadBodies == { << "A" >>, << "A", "A", "A" >> }

\* The three reads of tests.py (test_my_grep_calc), and its pattern.
TestLines ==
    << << "A", "T", "G", "C", "A", "C", "A", "C", "A", "C", "A" >>,
       << "T", "G", "N", "T", "T", "T", "A", "C", "G", "A", "A" >>,
       << "A", "T", "G", "C", "A", "C", "A", "A", "T", "G", "C", "A", "C", "A" >> >>

TestPattern == << "A", "T", "G", "C", "A", "C", "A" >>

\* Every list of at most MaxReads generated reads, and the reads of tests.py.
ReadLists ==
    UNION { [1..n -> ReadBodies] : n \in 0..MaxReads } \cup { TestLines }

\* The four lines of the record of one read.
RecordOf(read) ==
    << << "@", "r", "\n" >>,
       Terminated(read),
       << "+", "\n" >>,
       Terminated([i \in 1..Len(read) |-> "I"]) >>

\* The FASTQ file of a list of reads, four lines a read.
RECURSIVE FastqOf(_)
FastqOf(reads) ==
    IF reads = << >> THEN << >>
    ELSE RecordOf(Head(reads)) \o FastqOf(Tail(reads))

\* The same file cut after its last sequence line, which loses its
\* terminator: a file that ends in the middle of a record.
CutFastqOf(reads) ==
    LET whole == FastqOf(reads)
        n == Len(whole)
    IN  IF n = 0 THEN whole
        ELSE SubSeq(whole, 1, n - 3) \o << reads[Len(reads)] >>

\* Whole files, cut files, and the file of a title line alone.
FastqFiles ==
    { FastqOf(r) : r \in ReadLists } \cup { CutFastqOf(r) : r \in ReadLists }
        \cup { << << "@", "r", "\n" >> >> }

Row(code, gene, exone) == [CODE |-> code, GENES |-> gene, EXONE |-> exone]

\* Guide tables: none, one guide, two guides of two (gene, exon) pairs in
\* both orders, two guides of one pair, one code on two rows, and the
\* pattern of tests.py (which no generated read holds).
GuideTables ==
    { << >>,
      << Row(<< "A" >>, "GeneA", "Ex1") >>,
      << Row(<< "A" >>, "GeneA", "Ex1"), Row(<< "A", "A" >>, "GeneB", "Ex2") >>,
      << Row(<< "A", "A" >>, "GeneB", "Ex2"), Row(<< "A" >>, "GeneA", "Ex1") >>,
      << Row(<< "A" >>, "GeneA", "Ex1"), Row(<< "A", "A" >>, "GeneA", "Ex1") >>,
      << Row(<< "A" >>, "GeneA", "Ex1"), Row(<< "A" >>, "GeneB", "Ex2") >>,
      << Row(TestPattern, "GeneA", "Ex1") >> }

(***************************************************************************)
(* The script of main.py: functions                                        *)
(***************************************************************************)

\* The final table before it is written.
NoTable == [written |-> FALSE, rows |-> << >>]

\* mmap.mmap of a file of size 0 raises ValueError.
MmapFails(content) == content = << >>

\* b"".join(lines)
RECURSIVE BytesJoin(_)
BytesJoin(lines) ==
    IF lines = << >> THEN << >> ELSE Head(lines) \o BytesJoin(Tail(lines))

\* An extraction that strips every line it takes.
get_nucleotides_stripped(lines) ==
    [k \in 1..((Len(lines) + 2) \div 4) |-> RStrip(lines[4 * (k - 1) + 2])]

\* Lines 27-31: lines[1::4], the lines at the 0-based places 1, 5, 9, ...
get_nucleotides_from_fq(lines) ==
    [k \in 1..((Len(lines) + 2) \div 4) |-> lines[4 * (k - 1) + 2]]

\* A split into sections of Len(ary) // n + 1 elements, the last ones
\* taking what is left.
array_split_greedy(ary, n) ==
    LET size == (Len(ary) \div n) + 1
        first(i) == (i - 1) * size + 1
        last(i) == IF i * size <= Len(ary) THEN i * size ELSE Len(ary)
    IN  [i \in 1..n |-> SubSeq(ary, first(i), last(i))]

\* np.array_split(ary, n): n sections in order, the first Len(ary) % n of
\* Len(ary) // n + 1 elements and the others of Len(ary) // n.
array_split(ary, n) ==
    LET each == Len(ary) \div n
        extras == Len(ary) % n
        size(i) == IF i <= extras THEN each + 1 ELSE each
        first(i) == (i - 1) * each + (IF i - 1 <= extras THEN i - 1 ELSE extras) + 1
    IN  [i \in 1..n |-> SubSeq(ary, first(i), first(i) + size(i) - 1)]

\* Lines 94-96: the content of every chunk file.
ChunkFiles(split) == [i \in 1..Len(split) |-> BytesJoin(split[i])]

\* A dictionary that hands its entries back newest first.
RECURSIVE get_guides_newest_first(_)
get_guides_newest_first(rows) ==
    IF rows = << >> THEN << >>
    ELSE LET n == Len(rows)
             before == get_guides_newest_first(SubSeq(rows, 1, n - 1))
             last == rows[n]
             entry == [code |-> last.CODE, gene |-> last.GENES,
                       exone |-> last.EXONE]
         IN  IF \E i \in 1..Len(before) : before[i].code = last.CODE
             THEN [i \in 1..Len(before) |->
                     IF before[i].code = last.CODE THEN entry ELSE before[i]]
             ELSE << entry >> \o before

\* Lines 35-36: dict(zip(df.CODE, zip(df.GENES, df.EXONE))): a code keeps
\* the place of its first row and the value of its last.
RECURSIVE get_guides_from_file(_)
get_guides_from_file(rows) ==
    IF rows = << >> THEN << >>
    ELSE LET n == Len(rows)
             before == get_guides_from_file(SubSeq(rows, 1, n - 1))
             last == rows[n]
             entry == [code |-> last.CODE, gene |-> last.GENES,
                       exone |-> last.EXONE]
         IN  IF \E i \in 1..Len(before) : before[i].code = last.CODE
             THEN [i \in 1..Len(before) |->
                     IF before[i].code = last.CODE THEN entry ELSE before[i]]
             ELSE Append(before, entry)

\* len(re.findall(pattern, buffer)) for a pattern of literal characters:
\* the matches found from place i on, scanning left to right and resuming
\* after the end of each match (an empty pattern matches at every place).
RECURSIVE FindallFrom(_, _, _)
FindallFrom(pattern, buffer, i) ==
    IF pattern = << >> THEN Len(buffer) + 2 - i
    ELSE IF i + Len(pattern) - 1 > Len(buffer) THEN 0
    ELSE IF SubSeq(buffer, i, i + Len(pattern) - 1) = pattern
         THEN 1 + FindallFrom(pattern, buffer, i + Len(pattern))
         ELSE FindallFrom(pattern, buffer, i + 1)

\* Lines 40-45: the number of matches of the pattern in the chunk file.
mmap_grep_calc(pattern, content) == FindallFrom(pattern, content, 1)

Digits == << "0", "1", "2", "3", "4", "5", "6", "7", "8", "9" >>

\* The decimal text of a natural number (the f-string of line 56, to_csv).
RECURSIVE IntToStr(_)
IntToStr(n) ==
    IF n < 10 THEN << Digits[n + 1] >>
    ELSE IntToStr(n \div 10) \o << Digits[(n % 10) + 1] >>

\* The number a decimal text stands for (pd.read_csv on an integer column).
RECURSIVE StrToInt(_)
StrToInt(s) ==
    IF s = << >> THEN 0
    ELSE 10 * StrToInt(SubSeq(s, 1, Len(s) - 1))
         + (CHOOSE d \in 0..9 : Digits[d + 1] = s[Len(s)])

\* Lines 49-57: the call raises when the first guide maps an empty file.
ComputeFails(content, gd) == gd # << >> /\ MmapFails(content)

\* Lines 49-57: the data rows compute_results writes to df_i.out, one for
\* each guide of the dictionary, in its order.
compute_results(content, gd) ==
    [g \in 1..Len(gd) |->
        [gene |-> gd[g].gene, exone |-> gd[g].exone,
         occurence |-> IntToStr(mmap_grep_calc(gd[g].code, content))]]

\* Line 121: pd.read_csv(file, sep='\t', index_col=[0, 1]).
read_csv(rows) ==
    [r \in 1..Len(rows) |->
        [gene |-> rows[r].gene, exone |-> rows[r].exone,
         occurence |-> StrToInt(rows[r].occurence)]]

\* A sum that keeps the right-hand table.
DfAddKeepRight(df1, df2) == df2

\* Line 124: df1.add(df2, fill_value=0).  Every df_i.out holds the same
\* (gene, exone) labels in the same order, and on equal indexes pandas adds
\* place by place, with no alignment and nothing to fill.
DfAdd(df1, df2) ==
    [r \in 1..Len(df1) |->
        [df1[r] EXCEPT !.occurence = @ + df2[r].occurence]]

\* Lines 124-125: reduce(lambda df1, df2: df1.add(df2, fill_value=0), dfs).
RECURSIVE Reduce(_)
Reduce(dfs) ==
    IF Len(dfs) = 1 THEN dfs[1]
    ELSE DfAdd(Reduce(SubSeq(dfs, 1, Len(dfs) - 1)), dfs[Len(dfs)])

\* Lines 126-127: the rows to_csv writes.
to_csv(df) ==
    [r \in 1..Len(df) |->
        [gene |-> df[r].gene, exone |-> df[r].exone,
         occurence |-> IntToStr(df[r].occurence)]]

\* Every order in which glob can deliver n files.
Orders(n) == { o \in [1..n -> 1..n] : \A i, j \in 1..n : o[i] = o[j] => i = j }

\* A call of compute_results by a pool worker binds its arguments first:
\* the function takes four (line 49).
CallFails(args) == Len(args) # 4

(***************************************************************************)
(* The script of main.py: steps                                            *)
(***************************************************************************)

\* The script before its first step.
MainInit(file, table, k) ==
    /\ fastq = file
    /\ guides_data = table
    /\ number_of_files = k
    /\ mpc = "read"
    /\ sequences = << >>
    /\ sequences_split = << >>
    /\ fa = << >>
    /\ guides_dict = << >>
    /\ globbed = << >>
    /\ out = << >>
    /\ tasks = << >>
    /\ output = NoTable

\* The script when the model runs the generator instead.
MainIdle ==
    /\ fastq = << >>
    /\ guides_data = << >>
    /\ number_of_files = 0
    /\ mpc = "idle"
    /\ sequences = << >>
    /\ sequences_split = << >>
    /\ fa = << >>
    /\ guides_dict = << >>
    /\ globbed = << >>
    /\ out = << >>
    /\ tasks = << >>
    /\ output = NoTable

\* Line 90: the reads of the file; mmap raises on an empty file.
ReadFastq ==
    /\ UNCHANGED readerVars
    /\ mpc = "read"
    /\ IF MmapFails(BytesJoin(fastq))
       THEN /\ mpc' = "crashed"
            /\ UNCHANGED sequences
       ELSE /\ sequences' = get_nucleotides_from_fq(fastq)
            /\ mpc' = "split"
    /\ UNCHANGED << fastq, guides_data, number_of_files, sequences_split, fa,
                    guides_dict, globbed, out, tasks, output >>

\* Lines 92-96: the split and the chunk files.
WriteChunks ==
    /\ UNCHANGED readerVars
    /\ mpc = "split"
    /\ sequences_split' = array_split(sequences, number_of_files)
    /\ fa' = ChunkFiles(sequences_split')
    /\ mpc' = "guides"
    /\ UNCHANGED << fastq, guides_data, number_of_files, sequences,
                    guides_dict, globbed, out, tasks, output >>

\* Lines 99-104: the guide dictionary.
ParseGuides ==
    /\ UNCHANGED readerVars
    /\ mpc = "guides"
    /\ guides_dict' = get_guides_from_file(guides_data)
    /\ mpc' = "dispatch"
    /\ UNCHANGED << fastq, guides_data, number_of_files, sequences,
                    sequences_split, fa, globbed, out, tasks, output >>

\* Lines 110-112: one pass of the loop over glob's files, in whatever order
\* glob delivers them: the direct call writes df_i.out for the i-th file
\* delivered, then the same function is handed to the pool with the file
\* name as its only argument.  An exception of the direct call ends the
\* script.
Dispatch(f) ==
    /\ UNCHANGED readerVars
    /\ mpc = "dispatch"
    /\ \A j \in 1..Len(globbed) : globbed[j] # f
    /\ IF ComputeFails(fa[f], guides_dict)
       THEN /\ mpc' = "crashed"
            /\ UNCHANGED << globbed, out, tasks >>
       ELSE /\ globbed' = Append(globbed, f)
            /\ out' = Append(out, compute_results(fa[f], guides_dict))
            /\ tasks' = Append(tasks, [args |-> << f >>, state |-> "queued"])
            /\ UNCHANGED mpc
    /\ UNCHANGED << fastq, guides_data, number_of_files, sequences,
                    sequences_split, fa, guides_dict, output >>

\* A pool worker whose call t gets as far as opening df_t.out for writing
\* before it fails.
PoolRunOpensFile(t) ==
    /\ UNCHANGED readerVars
    /\ mpc = "dispatch"
    /\ tasks[t].state = "queued"
    /\ tasks' = [tasks EXCEPT ![t].state = "failed"]
    /\ out' = [out EXCEPT ![t] = << >>]
    /\ UNCHANGED << fastq, guides_data, number_of_files, mpc, sequences,
                    sequences_split, fa, guides_dict, globbed, output >>

\* A pool worker takes the call t: with one argument for four parameters
\* it raises TypeError, which nobody collects (no get() on the result).
PoolRun(t) ==
    /\ UNCHANGED readerVars
    /\ mpc = "dispatch"
    /\ tasks[t].state = "queued"
    /\ tasks' = [tasks EXCEPT ![t].state =
                    IF CallFails(tasks[t].args) THEN "failed" ELSE "done"]
    /\ UNCHANGED << fastq, guides_data, number_of_files, mpc, sequences,
                    sequences_split, fa, guides_dict, globbed, out, output >>

\* Lines 113-114: p.close(); p.join() returns when every call handed to
\* the pool has ended.
PoolJoin ==
    /\ UNCHANGED readerVars
    /\ mpc = "dispatch"
    /\ Len(globbed) = Len(fa)
    /\ \A t \in 1..Len(tasks) : tasks[t].state # "queued"
    /\ mpc' = "merge"
    /\ UNCHANGED << fastq, guides_data, number_of_files, sequences,
                    sequences_split, fa, guides_dict, globbed, out, tasks,
                    output >>

\* Lines 117-127: the partial tables are read in the order glob delivers
\* the .out files, summed, and the sum is written.
Summarize ==
    /\ UNCHANGED readerVars
    /\ mpc = "merge"
    /\ \E o \in Orders(Len(out)) :
         LET dfs == [j \in 1..Len(out) |-> read_csv(out[o[j]])]
         IN  output' = [written |-> TRUE, rows |-> to_csv(Reduce(dfs))]
    /\ mpc' = "cleanup"
    /\ UNCHANGED << fastq, guides_data, number_of_files, sequences,
                    sequences_split, fa, guides_dict, globbed, out, tasks >>

\* Lines 131-132: shutil.rmtree(args.tmp).
Cleanup ==
    /\ UNCHANGED readerVars
    /\ mpc = "cleanup"
    /\ fa' = << >>
    /\ out' = << >>
    /\ mpc' = "done"
    /\ UNCHANGED << fastq, guides_data, number_of_files, sequences,
                    sequences_split, guides_dict, globbed, tasks, output >>

MainNext ==
    \/ ReadFastq
    \/ WriteChunks
    \/ ParseGuides
    \/ \E f \in 1..Len(fa) : Dispatch(f)
    \/ \E t \in 1..Len(tasks) : PoolRun(t)
    \/ PoolJoin
    \/ Summarize
    \/ Cleanup

(***************************************************************************)
(* Specifications                                                          *)
(***************************************************************************)

Init ==
    /\ MainIdle
    /\ \E s \in Streams(RichBodies, MaxLines) : ReaderInit(s)

InitTricky ==
    /\ MainIdle
    /\ \E s \in TrickyStreams : ReaderInit(s)

InitPlain ==
    /\ MainIdle
    /\ \E s \in Streams(PlainBodies, MaxPlainLines) : ReaderInit(s)

InitPipeline ==
    /\ ReaderIdle
    /\ \E file \in FastqFiles, table \in GuideTables, k \in 1..NumberOfFiles :
         MainInit(file, table, k)

Next == ReaderNext

\* The reader on every stream of at most MaxLines lines of RichBodies.
Spec == Init /\ [][Next]_vars

\* The reader on the docstring's example and its runs of lines.
SpecTricky == InitTricky /\ [][Next]_vars

\* The reader on every stream of at most MaxPlainLines lines of PlainBodies.
SpecPlain == InitPlain /\ [][Next]_vars

InitFair ==
    /\ MainIdle
    /\ \E s \in Streams(RichBodies, MaxFairLines) : ReaderInit(s)

\* The reader driven to its end on every stream of at most MaxFairLines
\* lines of RichBodies: the caller asks for the next record as long as the
\* generator has one to give.
SpecFair == InitFair /\ [][Next]_vars /\ WF_vars(Next)

\* The script on every generated file, guide table and number of chunks.
SpecPipeline == InitPipeline /\ [][MainNext]_vars

(***************************************************************************)
(* Claims on FastqGeneralIterator                                          *)
(***************************************************************************)

\* The generator has ended, by a return or by an error.
ReaderEnded == pc \in { "done", "error" }

\* A line with its line break removed (and nothing else).
Body(l) == IF l # << >> /\ l[Len(l)] = "\n" THEN SubSeq(l, 1, Len(l) - 1) ELSE l

\* The bodies of the lines i..j of s, concatenated.
RECURSIVE ConcatBodies(_, _, _)
ConcatBodies(s, i, j) ==
    IF i > j THEN << >> ELSE Body(s[i]) \o ConcatBodies(s, i + 1, j)

\* C1: in the quality loop a line that starts with "@" ends the record
\* (the quality is left as it is and the line is kept for the next record)
\* exactly when the quality read so far is at least as long as the
\* sequence; otherwise the line, its trailing whitespace stripped, is
\* appended to the quality.  Only the first character of the line and the
\* two lengths decide.
C1_AtLineDecidedByLength ==
    [][ (pc = "qual" /\ HasNext /\ stream[pos + 1][1] = "@") =>
          IF Len(quality_string) >= Len(seq_string)
          THEN /\ pc' = "check"
               /\ quality_string' = quality_string
               /\ line' = stream[pos + 1]
          ELSE /\ pc' = "qual"
               /\ quality_string' = quality_string \o RStrip(stream[pos + 1])
      ]_vars

\* C1 witness: an "@" line has just been appended to a quality that was
\* too short, and is now part of it.
C1_Witness ==
    /\ pc = "qual"
    /\ line # None
    /\ line[1] = "@"
    /\ quality_string # << >>
    /\ quality_string[1] = "@"

\* s is the first Len(s) elements of t.
IsPrefix(s, t) == Len(s) <= Len(t) /\ s = SubSeq(t, 1, Len(s))

\* C2: on the example file of the docstring the reader raises no error and
\* yields the four records the docstring lists, in order, and nothing else.
C2_TrickyExample ==
    stream = TrickyFastq =>
        /\ pc # "error"
        /\ error = ""
        /\ IsPrefix(records, TrickyRecords)
        /\ (pc = "done" => records = TrickyRecords)

\* C2 witness: the reader has returned on the example file, the second
\* record's quality begins with "@" and the fourth record's quality holds
\* the "@" that began its second line.
C2_Witness ==
    /\ stream = TrickyFastq
    /\ pc = "done"
    /\ Len(records) = 4
    /\ records[2][3][1] = "@"
    /\ Len(records[4][2]) = 36
    /\ records[4][3][19] = "@"

\* C3: every record yielded has a quality as long as its sequence, and a
\* sequence that holds no whitespace character of any kind.
C3_NoWhitespaceInSequence ==
    \A r \in 1..Len(records) :
        /\ Len(records[r][2]) = Len(records[r][3])
        /\ \A i \in 1..Len(records[r][2]) : records[r][2][i] \notin Whitespace

\* The last line of the record that starts at line i of s: the line before
\* the next line that starts with "@".
RECURSIVE NaiveEnd(_, _)
NaiveEnd(s, i) ==
    IF i = Len(s) \/ s[i + 1][1] = "@" THEN i ELSE NaiveEnd(s, i + 1)

\* A naive split: s cut before every line that starts with "@".
RECURSIVE NaiveGroups(_)
NaiveGroups(s) ==
    IF s = << >> THEN << >>
    ELSE LET j == NaiveEnd(s, 1)
         IN  << SubSeq(s, 1, j) >> \o NaiveGroups(SubSeq(s, j + 1, Len(s)))

\* The place of the separator in a group: its first line after the title
\* that starts with "+" (0 if there is none).
SeparatorAt(g) ==
    IF \E k \in 2..Len(g) : g[k][1] = "+"
    THEN CHOOSE k \in 2..Len(g) :
            g[k][1] = "+" /\ \A m \in 2..(k - 1) : g[m][1] # "+"
    ELSE 0

\* A line of data: a body that is not empty and holds no whitespace.
IsDataLine(l) ==
    /\ Body(l) # << >>
    /\ \A i \in 1..Len(Body(l)) : Body(l)[i] \notin Whitespace

\* A line of nucleotides: data without the two markers.
IsSequenceLine(l) ==
    /\ IsDataLine(l)
    /\ \A i \in 1..Len(Body(l)) : Body(l)[i] \notin { "@", "+" }

\* A group is a well-formed record: a title line, one or more sequence
\* lines, a "+" line that is bare or repeats the title, one or more quality
\* lines, as many quality characters as nucleotides.
WellFormedGroup(g) ==
    LET k == SeparatorAt(g)
    IN  /\ g[1][1] = "@"
        /\ IsDataLine(g[1])
        /\ k >= 3
        /\ k < Len(g)
        /\ \A m \in 2..(k - 1) : IsSequenceLine(g[m])
        /\ Tail(Body(g[k])) \in { << >>, Tail(Body(g[1])) }
        /\ \A m \in (k + 1)..Len(g) : IsDataLine(g[m])
        /\ Len(ConcatBodies(g, 2, k - 1)) = Len(ConcatBodies(g, k + 1, Len(g)))

\* A well-formed text none of whose quality lines starts with "@": every
\* group of the naive split is a well-formed record.
WellFormed(s) ==
    \A n \in 1..Len(NaiveGroups(s)) : WellFormedGroup(NaiveGroups(s)[n])

\* The record of a group: the title, the sequence lines and the quality
\* lines, each joined with the line breaks removed.
NaiveRecord(g) ==
    << Tail(Body(g[1])),
       ConcatBodies(g, 2, SeparatorAt(g) - 1),
       ConcatBodies(g, SeparatorAt(g) + 1, Len(g)) >>

NaiveSplit(s) == [n \in 1..Len(NaiveGroups(s)) |-> NaiveRecord(NaiveGroups(s)[n])]

\* C4: on a well-formed text none of whose quality lines starts with "@"
\* the reader ends without an error, having yielded the records of the
\* naive split, in the same order.
C4_NaiveSplit ==
    (ReaderEnded /\ WellFormed(stream)) =>
        /\ pc = "done"
        /\ records = NaiveSplit(stream)

\* C4 witness: the reader has returned on a well-formed text of two records.
C4_Witness ==
    /\ pc = "done"
    /\ WellFormed(stream)
    /\ Len(records) = 2

(***************************************************************************)
(* Claims on the script of main.py                                         *)
(***************************************************************************)

\* The pattern occurs in the read.
Occurs(pattern, read) ==
    \E k \in 1..(Len(read) - Len(pattern) + 1) :
        SubSeq(read, k, k + Len(pattern) - 1) = pattern

\* The number of reads of the chunk that hold the pattern.
ReadsWith(pattern, chunk) ==
    Cardinality({ r \in 1..Len(chunk) : Occurs(pattern, chunk[r]) })

\* C5: the count written for a guide and a chunk is the number of reads of
\* the chunk that hold the guide's pattern at least once.
C5_PerReadPresence ==
    \A i \in 1..Len(out) : \A g \in 1..Len(out[i]) :
        StrToInt(out[i][g].occurence)
            = ReadsWith(guides_dict[g].code, sequences_split[globbed[i]])

\* The lists of a list, concatenated in order.
RECURSIVE Flatten(_)
Flatten(lists) ==
    IF lists = << >> THEN << >> ELSE Head(lists) \o Flatten(Tail(lists))

\* The script has split the reads.
SplitDone ==
    \/ mpc \in { "guides", "dispatch", "merge", "cleanup", "done" }
    \/ mpc = "crashed" /\ sequences_split # << >>

\* C6: the split has exactly number_of_files chunks, the chunks put end to
\* end in order are the list of reads, two chunks differ by at most one
\* read, and an empty list gives empty chunks only.
C6_Partition ==
    SplitDone =>
        /\ Len(sequences_split) = number_of_files
        /\ Flatten(sequences_split) = sequences
        /\ \A i, j \in 1..Len(sequences_split) :
              Len(sequences_split[i]) - Len(sequences_split[j]) <= 1
        /\ sequences = << >> =>
              \A i \in 1..Len(sequences_split) : sequences_split[i] = << >>

\* C6 witness: a list that does not divide evenly has been split into
\* several chunks of two sizes.
C6_Witness ==
    /\ mpc = "guides"
    /\ number_of_files >= 3
    /\ Len(sequences) > number_of_files
    /\ \E i, j \in 1..Len(sequences_split) :
          Len(sequences_split[i]) # Len(sequences_split[j])

\* The sum of f[1], ..., f[n].
RECURSIVE SumTo(_, _)
SumTo(f, n) == IF n = 0 THEN 0 ELSE f[n] + SumTo(f, n - 1)

\* The partial counts of df_i.out whose row has the key.
PartialOfFile(i, key) ==
    SumTo([g \in 1..Len(out[i]) |->
              IF << out[i][g].gene, out[i][g].exone >> = key
              THEN StrToInt(out[i][g].occurence) ELSE 0],
          Len(out[i]))

\* The sum over every chunk of the partial counts that have the key.
PartialSum(key) ==
    SumTo([i \in 1..Len(out) |-> PartialOfFile(i, key)], Len(out))

\* C7: once the final table is written, every (gene, exon) pair of the
\* guide catalog has a row in it, and the occurrence of the pair is the sum
\* over all chunks of the partial counts with that pair.
C7_SumPerKey ==
    mpc = "cleanup" =>
        \A g \in 1..Len(guides_dict) :
            LET key == << guides_dict[g].gene, guides_dict[g].exone >>
                rows == { r \in 1..Len(output.rows) :
                            << output.rows[r].gene, output.rows[r].exone >> = key }
            IN  /\ rows # { }
                /\ \A r \in rows :
                      StrToInt(output.rows[r].occurence) = PartialSum(key)

\* C8: a final table is never written by a run in which a counting call,
\* direct or handed to the pool, has failed.
C8_NoTableAfterFailure ==
    output.written => \A t \in 1..Len(tasks) : tasks[t].state # "failed"

\* The chunk files of the run.
Chunks == ChunkFiles(sequences_split)

\* The table of the run in which glob delivers the chunk files and the
\* partial files in the order of their numbers.
TableInOrder ==
    to_csv(Reduce([c \in 1..Len(Chunks) |->
                      read_csv(compute_results(Chunks[c], guides_dict))]))

\* C9: the order in which glob delivers the chunk files, the order in
\* which the pool ends its calls and the order in which the partial files
\* are read change nothing: whether a table is written depends on the
\* chunks alone, and a table written is the table of the run in order.
C9_OrderIndependent ==
    /\ output.written => output.rows = TableInOrder
    /\ mpc \in { "merge", "cleanup", "done" } =>
          \A c \in 1..Len(Chunks) : ~ComputeFails(Chunks[c], guides_dict)
    /\ (mpc = "crashed" /\ SplitDone) =>
          \E c \in 1..Len(Chunks) : ComputeFails(Chunks[c], guides_dict)

\* C9 witness: a table has been written by a run in which glob delivered
\* a chunk file other than the first one first, and two partial tables of
\* the run differ.
C9_Witness ==
    /\ mpc = "cleanup"
    /\ output.written
    /\ globbed[1] # 1
    /\ \E i, j \in 1..Len(out) : out[i] # out[j]

\* What the run with a single chunk file ends with.
OneChunkOutcome ==
    IF MmapFails(BytesJoin(fastq)) THEN NoTable
    ELSE LET content == BytesJoin(get_nucleotides_from_fq(fastq))
             gd == get_guides_from_file(guides_data)
         IN  IF ComputeFails(content, gd) THEN NoTable
             ELSE [written |-> TRUE,
                   rows |-> to_csv(read_csv(compute_results(content, gd)))]

\* C10: on the same FASTQ file and guide table the run ends with the same
\* final table whatever the number of chunk files: with the table of the
\* run with one chunk file.
C10_SameTableForEveryK ==
    mpc \in { "done", "crashed" } => output = OneChunkOutcome

\* The rows of the final table are the rows of the guide table, one for
\* one and in the order of the guide table.
RowPerEntry ==
    /\ Len(output.rows) = Len(guides_data)
    /\ \A r \in 1..Len(guides_data) :
          /\ output.rows[r].gene = guides_data[r].GENES
          /\ output.rows[r].exone = guides_data[r].EXONE

\* No code stands on two rows of the guide table.
CodesDistinct ==
    \A i, j \in 1..Len(guides_data) :
        guides_data[i].CODE = guides_data[j].CODE => i = j

\* C11 as stated: a final table written has exactly one row for each row
\* of the guide table, in the order of the guide table, whatever the order
\* in which the files were delivered and the pool calls ended.
C11_RowPerCatalogEntry ==
    output.written => RowPerEntry

\* C11 amended: a final table written has one row for each distinct code
\* of the guide table, in the order in which the codes first appear, with
\* the gene and exon of the last row of that code; so for a guide table of
\* distinct codes it has exactly one row for each row of the guide table,
\* in its order, whatever the order of the files and of the pool calls.
C11_RowPerDistinctCode ==
    output.written =>
        /\ Len(output.rows) = Cardinality({ guides_data[r].CODE :
                                             r \in 1..Len(guides_data) })
        /\ \A r \in 1..Len(output.rows) :
              /\ output.rows[r].gene = guides_dict[r].gene
              /\ output.rows[r].exone = guides_dict[r].exone
        /\ \A r, q \in 1..Len(guides_dict) :
              r < q =>
                 \E i \in 1..Len(guides_data) :
                    /\ guides_data[i].CODE = guides_dict[r].code
                    /\ \A j \in 1..Len(guides_data) :
                          guides_data[j].CODE = guides_dict[q].code => i < j
        /\ \A r \in 1..Len(guides_dict) :
              \E i \in 1..Len(guides_data) :
                 /\ guides_data[i].CODE = guides_dict[r].code
                 /\ guides_data[i].GENES = guides_dict[r].gene
                 /\ guides_data[i].EXONE = guides_dict[r].exone
                 /\ \A j \in 1..Len(guides_data) :
                       guides_data[j].CODE = guides_dict[r].code => j <= i
        /\ CodesDistinct => RowPerEntry

\* C11 witness: a table of two different rows has been written from a
\* guide table of two distinct codes, by a run in which glob delivered a
\* chunk file other than the first one first.
C11_Witness ==
    /\ output.written
    /\ Len(guides_data) = 2
    /\ CodesDistinct
    /\ output.rows[1].gene # output.rows[2].gene
    /\ Len(globbed) >= 2
    /\ globbed[1] # 1


(***************************************************************************)
(* Further claims on FastqGeneralIterator                                  *)
(***************************************************************************)

TitleError == "Records in Fastq files should start with '@' character"

\* C12: where the reader expects a title line, which is on the first line
\* of the stream and on the "@" line it kept when the record before ended,
\* a line that does not start with "@" makes it raise the title error in
\* that step, with no record yielded for the line; the title error is
\* raised nowhere else; and on the empty stream the reader returns with no
\* record and no error.
C12_TitleMustStartWithAt ==
    /\ [][pc = "title" =>
            IF line[1] # "@"
            THEN pc' = "error" /\ error' = TitleError /\ records' = records
            ELSE pc' = "seq" /\ error' = error]_vars
    /\ [](pc = "title" =>
            /\ line = stream[pos]
            /\ pos = 1 \/ records # << >>)
    /\ [](error = TitleError =>
            /\ pc = "error"
            /\ stream[pos][1] # "@"
            /\ ~ENABLED ReaderNext)
    /\ []((stream = << >> /\ pc # "start") =>
            pc = "done" /\ records = << >> /\ error = "")

\* C12 witness: the reader has raised the title error on a line that does
\* not start with "@".
C12_Witness ==
    /\ pc = "error"
    /\ error = TitleError
    /\ line[1] # "@"


EofError == "Unexpected end of file"

LengthError == "Lengths of sequence and quality values differs"

\* C13 as stated: when the stream ends in the quality loop with a quality
\* shorter than the sequence, whether or not a quality line was read, the
\* reader raises "Unexpected end of file" and yields no record; so the
\* length error is never raised for a quality that is too short.
C13_TruncatedAtEndOfQuality ==
    /\ [][(pc = "qual" /\ ~HasNext /\ Len(quality_string) < seq_len) =>
            (pc' = "error" /\ error' = EofError /\ records' = records)]_vars
    /\ []((pc = "error" /\ error = LengthError) =>
            Len(quality_string) > seq_len)

\* C13 amended: when the stream ends in the quality loop before any
\* quality line was read (`line` is still None), the reader raises
\* "Unexpected end of file", whatever the length of the sequence; when it
\* ends after at least one quality line, the loop ends without an error and
\* a quality shorter than the sequence makes the length check raise the
\* length error.  In both cases no record is yielded, then or later.
C13_EndOfQuality ==
    /\ [][(pc = "qual" /\ ~HasNext) =>
            IF line = None
            THEN pc' = "error" /\ error' = EofError /\ records' = records
            ELSE /\ pc' = "check" /\ line' = None
                 /\ error' = error /\ records' = records]_vars
    /\ [][(pc = "check" /\ line = None
                /\ Len(quality_string) < seq_len) =>
            (pc' = "error" /\ error' = LengthError
                /\ records' = records)]_vars
    /\ [](pc = "qual" =>
            IF line = None
            THEN quality_string = << >> /\ stream[pos][1] = "+"
            ELSE line = stream[pos])
    /\ [](pc = "error" => ~ENABLED ReaderNext)

\* C13 witness: the stream has ended after a quality line, with a quality
\* shorter than the sequence, and the reader has raised the length error.
C13_Witness ==
    /\ pc = "error"
    /\ error = LengthError
    /\ line = None
    /\ quality_string # << >>
    /\ Len(quality_string) < seq_len


\* Lines 102-110 as a function: the sequence loop from the line j on, with
\* the sequence acc read so far: the sequence and the place of the "+"
\* line that ends it, 0 if the stream ends first.
RECURSIVE SequenceFrom(_, _, _)
SequenceFrom(s, j, acc) ==
    IF j > Len(s) THEN [seq |-> acc, sep |-> 0]
    ELSE IF s[j][1] = "+" THEN [seq |-> acc, sep |-> j]
    ELSE SequenceFrom(s, j + 1, acc \o RStrip(s[j]))

\* Lines 125-136 as a function: the quality loop from the line j on, with
\* the quality q read so far for a sequence of length n: the quality and
\* the place of the "@" line that ends it, 0 if the stream ends first.
RECURSIVE QualityFrom(_, _, _, _)
QualityFrom(s, j, q, n) ==
    IF j > Len(s) THEN [quality |-> q, next |-> 0]
    ELSE IF IsNewRecord(s[j], q, n) THEN [quality |-> q, next |-> j]
    ELSE QualityFrom(s, j + 1, q \o RStrip(s[j]), n)

Failure(msg) == [error |-> msg, record |-> << >>, next |-> 0]

\* Lines 93-149 as a function: one pass of the outer loop on the line t
\* held as the title line: the error raised, or the record yielded and
\* the place of the line held for the next pass (0: `line` is None).
RecordAt(s, t) ==
    IF s[t][1] # "@" THEN Failure(TitleError)
    ELSE
    LET title == RStrip(Tail(s[t]))
        sq == SequenceFrom(s, t + 1, << >>)
    IN  IF sq.sep = 0
        THEN Failure(IF sq.seq # << >>
                     THEN "End of file without quality information."
                     ELSE EofError)
        ELSE
        LET second_title == RStrip(Tail(s[sq.sep]))
            ql == QualityFrom(s, sq.sep + 1, << >>, Len(sq.seq))
        IN  IF second_title # << >> /\ second_title # title
            THEN Failure("Sequence and quality captions differ.")
            ELSE IF HasSpaceOrTab(sq.seq)
            THEN Failure("Whitespace is not allowed in the sequence.")
            ELSE IF sq.sep = Len(s)
            THEN Failure(EofError)
            ELSE IF Len(ql.quality) # Len(sq.seq)
            THEN Failure(LengthError)
            ELSE [error |-> "",
                  record |-> << title, sq.seq, ql.quality >>,
                  next |-> ql.next]

\* The outer loop as a function, from the title line t on, after the
\* records recs: the records yielded, the error raised ("" if none) and
\* the place of the title line of the record that failed (0 if none).
RECURSIVE ReadFrom(_, _, _)
ReadFrom(s, t, recs) ==
    LET r == RecordAt(s, t)
    IN  IF r.error # ""
        THEN [records |-> recs, error |-> r.error, failed_at |-> t]
        ELSE IF r.next = 0
        THEN [records |-> Append(recs, r.record), error |-> "",
              failed_at |-> 0]
        ELSE ReadFrom(s, r.next, Append(recs, r.record))

\* list(FastqGeneralIterator(s)), with the error that ends it.
FastqRecords(s) ==
    IF s = << >> THEN [records |-> << >>, error |-> "", failed_at |-> 0]
    ELSE ReadFrom(s, 1, << >>)

\* The lines of the stream before the record on which the reader failed.
PrefixBeforeFailure ==
    SubSeq(stream, 1, FastqRecords(stream).failed_at - 1)

\* C14: once the reader has raised an error it yields nothing more, and
\* the records it yielded before are exactly the records it yields, with
\* no error, on the lines before the record that failed.  (The first
\* conjunct ties the function FastqRecords to the generator.)
C14_RecordsOfPrefix ==
    /\ ReaderEnded =>
          /\ records = FastqRecords(stream).records
          /\ error = FastqRecords(stream).error
    /\ pc = "error" =>
          /\ ~ENABLED ReaderNext
          /\ FastqRecords(PrefixBeforeFailure).error = ""
          /\ FastqRecords(PrefixBeforeFailure).records = records


\* A file of whole records of four lines each: a title line, one line of
\* nucleotides, a "+" line that is bare or repeats the title, and one
\* quality line (which may start with "@") as long as the nucleotides.
FourLineFile(s) ==
    /\ Len(s) % 4 = 0
    /\ \A k \in 1..(Len(s) \div 4) :
          LET g == SubSeq(s, 4 * k - 3, 4 * k)
          IN  /\ g[1][1] = "@"
              /\ IsDataLine(g[1])
              /\ IsSequenceLine(g[2])
              /\ g[3][1] = "+"
              /\ Tail(Body(g[3])) \in { << >>, Tail(Body(g[1])) }
              /\ IsDataLine(g[4])
              /\ Len(Body(g[2])) = Len(Body(g[4]))

\* What get_nucleotides_from_fq returns on the file the reader reads.
Nucleotides == get_nucleotides_from_fq(stream)

\* On the file the reader reads, get_nucleotides_from_fq returns the
\* sequence line of every record, one for each record and in the order of
\* the file, and these lines without their terminators are the sequences
\* the reader has yielded when it ends, which it does without an error.
SameSequences ==
    /\ Len(Nucleotides) = Len(stream) \div 4
    /\ \A k \in 1..Len(Nucleotides) :
          /\ Nucleotides[k] = stream[4 * k - 2]
          /\ IsSequenceLine(Nucleotides[k])
    /\ ReaderEnded =>
          /\ pc = "done"
          /\ Len(records) = Len(Nucleotides)
          /\ \A k \in 1..Len(records) : records[k][2] = Body(Nucleotides[k])

\* C15: on every file of whole four-line records get_nucleotides_from_fq
\* returns (it raises nothing) the sequence line of every record, in the
\* order of the file, and with the terminators removed its result is the
\* list of the sequences FastqGeneralIterator yields on the same file.
C15_SequenceLines ==
    FourLineFile(stream) =>
        /\ ~MmapFails(BytesJoin(stream))
        /\ SameSequences


\* C17: the reader takes the lines of the stream one at a time and in
\* order, never one twice and never skipping one; a line taken goes to
\* exactly one place of the record being read (the title held for the
\* head of the loop, the sequence, the separator, the quality, or the
\* title held for the next record) and leaves every other field and the
\* records yielded as they were; the "@" line that ends a quality is not
\* appended to it and becomes the title of the next record with no line
\* read in between; a record yielded is made of the fields as they stand;
\* and a reader that returns has taken every line.
C17_EveryLineOnce ==
    /\ [][\/ pos' = pos /\ line' \in { line, None }
          \/ pos' = pos + 1 /\ line' = stream[pos + 1]]_vars
    /\ [][pos' = pos + 1 =>
            \/ /\ pc = "start" /\ pc' = "title"
               /\ UNCHANGED << title_line, seq_string, quality_string,
                               records >>
            \/ /\ pc = "seq" /\ pc' = "seq"
               /\ seq_string' = seq_string \o RStrip(stream[pos + 1])
               /\ UNCHANGED << title_line, quality_string, records >>
            \/ /\ pc = "seq" /\ pc' = "sep"
               /\ stream[pos + 1][1] = "+"
               /\ UNCHANGED << title_line, seq_string, quality_string,
                               records >>
            \/ /\ pc = "qual" /\ pc' = "qual"
               /\ quality_string' = quality_string \o RStrip(stream[pos + 1])
               /\ UNCHANGED << title_line, seq_string, records >>
            \/ /\ pc = "qual" /\ pc' = "check"
               /\ stream[pos + 1][1] = "@"
               /\ UNCHANGED << title_line, seq_string, quality_string,
                               records >>]_vars
    /\ [][(pc = "title" /\ pc' = "seq") =>
            /\ pos' = pos
            /\ title_line' = RStrip(Tail(stream[pos]))]_vars
    /\ [][records' # records =>
            /\ records' = Append(records,
                                 << title_line, seq_string, quality_string >>)
            /\ pos' = pos]_vars
    /\ []((pc \in { "check", "yielded", "title" } /\ line # None) =>
            line = stream[pos] /\ (pc = "title" => pos = 1 \/ line[1] = "@"))
    /\ []((pc \in { "check", "yielded" } /\ line # None) => line[1] = "@")
    /\ [](pc = "done" => pos = Len(stream))

\* C17 witness: the fifth line, "@A", has ended the quality of the first
\* record, which does not hold it, and is the title of the second.
C17_Witness ==
    /\ pc = "seq"
    /\ pos = 5
    /\ stream[5] = << "@", "A", "\n" >>
    /\ Len(records) = 1
    /\ records[1][3] = << "A" >>
    /\ title_line = << "A" >>

\* The lines the handle has yet to deliver.
LinesLeft == Len(stream) - pos

\* The steps the reader can take from a place without reading a line are
\* fewer than Rank of the place.
Rank(p) ==
    CASE p = "start" -> 8
      [] p = "sep" -> 7
      [] p = "qual" -> 6
      [] p = "check" -> 5
      [] p = "yielded" -> 4
      [] p = "title" -> 3
      [] p = "seq" -> 2
      [] OTHER -> 0

\* What every step of the reader makes smaller.
Progress == 9 * LinesLeft + Rank(pc)

\* How many of the first n lines of the stream start with "@".
AtLines(n) == Cardinality({ i \in 1..n : stream[i][1] = "@" })

\* C20: on every stream the reader ends, with a return or an error: it
\* can always take a step until it has ended, and every step lowers a
\* measure that is never negative; every pass of the sequence loop and
\* of the quality loop takes one line from the handle and every pass of
\* the outer loop takes at least one; and the records yielded are never
\* more than the lines read so far that start with "@".
C20_Terminates ==
    /\ <>ReaderEnded
    /\ [](ReaderEnded \/ ENABLED Next)
    /\ [](Progress >= 0)
    /\ [][Progress' < Progress]_vars
    /\ [][(pc = "seq" /\ pc' \in { "seq", "sep" }) => pos' = pos + 1]_vars
    /\ [][(pc = "qual" /\ (pc' = "qual" \/ line' # None)) =>
            pos' = pos + 1]_vars
    /\ [](pc = "title" => pos >= 2 * Len(records) + 1)
    /\ [](Len(records) <= AtLines(pos))
    /\ [](pc \in { "seq", "sep", "qual", "check" } =>
            Len(records) < AtLines(pos))

\* C20 witness: the reader has returned after it took four lines, two of
\* which start with "@" but one of these as quality, and yielded one
\* record.
C20_Witness ==
    /\ pc = "done"
    /\ pos = 4
    /\ AtLines(4) = 2
    /\ Len(records) = 1

(***************************************************************************)
(* Further claims on the script of main.py                                 *)
(***************************************************************************)

\* C16: when the merge starts, a direct call and a pool call have been
\* made for every chunk file, every one of them has ended, and every one
\* has ended with a result that the merge reads: the partial table of
\* every direct call is a file of the merge, and no pool call has failed
\* with its outcome left uncollected.
C16_EveryResultMerged ==
    mpc = "merge" =>
        /\ Len(out) = Len(fa)
        /\ Len(tasks) = Len(fa)
        /\ \A t \in 1..Len(tasks) : tasks[t].state # "queued"
        /\ \A t \in 1..Len(tasks) : tasks[t].state = "done"


\* C18: every partial file is written once, by the direct call of one
\* pass of the loop, as a new file (no file written before is touched),
\* from a chunk file that no other call has read; a pool call that ends
\* writes no file; and until the cleanup every partial file holds what
\* its one call computed from its own chunk file.
C18_OneWriterPerFile ==
    /\ [][(mpc = "dispatch" /\ out' # out) =>
            /\ Len(out') = Len(out) + 1
            /\ SubSeq(out', 1, Len(out)) = out
            /\ Len(globbed') = Len(out')
            /\ SubSeq(globbed', 1, Len(globbed)) = globbed
            /\ \A j \in 1..Len(globbed) :
                  globbed[j] # globbed'[Len(globbed')]
            /\ tasks' = Append(tasks,
                               [args |-> << globbed'[Len(globbed')] >>,
                                state |-> "queued"])]_vars
    /\ [][(Len(tasks') = Len(tasks) /\ tasks' # tasks) =>
            UNCHANGED << fa, out, output >>]_vars
    /\ [](mpc \in { "dispatch", "merge", "cleanup", "crashed" } =>
            /\ Len(out) = Len(globbed)
            /\ \A i, j \in 1..Len(globbed) :
                  globbed[i] = globbed[j] => i = j
            /\ \A i \in 1..Len(out) :
                  out[i] = compute_results(fa[globbed[i]], guides_dict))

\* C18 witness: the merge is about to start, two partial files differ,
\* and every pool call has ended in failure without a file written.
C18_Witness ==
    /\ mpc = "merge"
    /\ Len(out) >= 2
    /\ out[1] # out[2]
    /\ \A t \in 1..Len(tasks) : tasks[t].state = "failed"


\* The places where re.findall finds the pattern in the buffer from the
\* place i on (the matches FindallFrom counts).
RECURSIVE MatchStarts(_, _, _)
MatchStarts(pattern, buffer, i) ==
    IF pattern = << >> THEN i..(Len(buffer) + 1)
    ELSE IF i + Len(pattern) - 1 > Len(buffer) THEN { }
    ELSE IF SubSeq(buffer, i, i + Len(pattern) - 1) = pattern
         THEN { i } \cup MatchStarts(pattern, buffer, i + Len(pattern))
         ELSE MatchStarts(pattern, buffer, i + 1)

\* A pattern of nucleotide letters.
OfLetters(pattern) ==
    /\ pattern # << >>
    /\ \A i \in 1..Len(pattern) : pattern[i] \in { "A", "C", "G", "T", "N" }

\* How many characters of the chunk file come before its read r.
Offset(chunk, r) == Len(BytesJoin(SubSeq(chunk, 1, r - 1)))

\* Every match of the pattern in the file of the chunk lies inside one
\* read of the chunk.
MatchesInsideReads(pattern, chunk) ==
    \A p \in MatchStarts(pattern, BytesJoin(chunk), 1) :
        \E r \in 1..Len(chunk) :
            /\ Offset(chunk, r) < p
            /\ p + Len(pattern) - 1 <= Offset(chunk, r) + Len(chunk[r])

\* The sum over the reads of the chunk of the matches inside each read.
SumOverReads(pattern, chunk) ==
    SumTo([r \in 1..Len(chunk) |-> FindallFrom(pattern, chunk[r], 1)],
          Len(chunk))

\* C19: every extracted read is its line of the FASTQ file as it stands,
\* terminator included (only the last line of the file can be without
\* one), and is written so to its chunk file; so for a guide made of
\* nucleotide letters every match counted in a chunk file lies inside one
\* read, and the count written for the chunk is the sum over its reads of
\* the non-overlapping matches inside each read.
C19_NoMatchAcrossReads ==
    /\ SplitDone =>
          /\ \A k \in 1..Len(sequences) :
                /\ sequences[k] = fastq[4 * k - 2]
                /\ 4 * k - 2 < Len(fastq) =>
                      sequences[k][Len(sequences[k])] = "\n"
          /\ Flatten(sequences_split) = sequences
    /\ mpc \in { "dispatch", "merge", "cleanup" } =>
          /\ \A c \in 1..Len(fa) : fa[c] = BytesJoin(sequences_split[c])
          /\ \A i \in 1..Len(out), g \in 1..Len(guides_dict) :
                LET chunk == sequences_split[globbed[i]]
                    code == guides_dict[g].code
                    count == StrToInt(out[i][g].occurence)
                IN  OfLetters(code) =>
                      /\ count = Cardinality(
                                     MatchStarts(code, fa[globbed[i]], 1))
                      /\ MatchesInsideReads(code, chunk)
                      /\ count = SumOverReads(code, chunk)

\* C19 witness: a count has been written for a chunk of several reads
\* which, put end to end without their terminators, would hold one more
\* match of the guide than the chunk file does.
C19_Witness ==
    /\ mpc = "merge"
    /\ \E i \in 1..Len(out), g \in 1..Len(guides_dict) :
          LET chunk == sequences_split[globbed[i]]
              code == guides_dict[g].code
              stripped == BytesJoin([r \in 1..Len(chunk) |-> RStrip(chunk[r])])
          IN  /\ Len(chunk) >= 2
              /\ StrToInt(out[i][g].occurence) >= 1
              /\ StrToInt(out[i][g].occurence)
                    < FindallFrom(code, stripped, 1)

=============================================================================
